---- MODULE Spec2Model ----
(***************************************************************************)
(* Model of podcast-transcript-needAPIkey.py: a sequential pipeline        *)
(*   split_text -> update_chunk_files -> combine_chunks -> save ->         *)
(*   create_epub                                                           *)
(* over one output directory.  Texts and file names are sequences of       *)
(* one-character strings; the directory is a function from file names to   *)
(* file contents.                                                          *)
(***************************************************************************)
EXTENDS Integers, Sequences, FiniteSets, TLC

\* ------------------------------------------------------------------ bounds
MaxLen == 3          \* transcripts of every length 0..MaxLen are explored
LongLen == 10        \* length of the one long transcript (>= 10 chunks)
MaxParam == 3        \* largest --chunk_size / --overlap explored
MaxNeg == 1          \* most negative --chunk_size / --overlap explored

\* --------------------------------------------------------- generic helpers
Max(a, b) == IF a >= b THEN a ELSE b

Min(a, b) == IF a <= b THEN a ELSE b

RECURSIVE Flatten(_)
Flatten(ss) == IF ss = <<>> THEN <<>> ELSE Head(ss) \o Flatten(Tail(ss))

RECURSIVE Repeat(_, _)
Repeat(c, n) == IF n <= 0 THEN <<>> ELSE <<c>> \o Repeat(c, n - 1)

RECURSIVE SeqsUpTo(_, _)
SeqsUpTo(S, n) ==
    IF n <= 0 THEN {<<>>}
    ELSE LET shorter == SeqsUpTo(S, n - 1)
         IN  shorter \cup {Append(s, c) : s \in shorter, c \in S}

IsPrefix(p, s) == Len(p) <= Len(s) /\ SubSeq(s, 1, Len(p)) = p

\* ---------------------------------------------------- Python str semantics
\* code points of the characters that occur in file names (str comparison)
Ord(c) ==
    CASE c = "." -> 46
      [] c = "0" -> 48 [] c = "1" -> 49 [] c = "2" -> 50 [] c = "3" -> 51
      [] c = "4" -> 52 [] c = "5" -> 53 [] c = "6" -> 54 [] c = "7" -> 55
      [] c = "8" -> 56 [] c = "9" -> 57
      [] c = "_" -> 95
      [] c = "b" -> 98 [] c = "c" -> 99 [] c = "d" -> 100 [] c = "e" -> 101
      [] c = "h" -> 104 [] c = "i" -> 105 [] c = "k" -> 107 [] c = "m" -> 109
      [] c = "n" -> 110 [] c = "o" -> 111 [] c = "p" -> 112 [] c = "t" -> 116
      [] c = "u" -> 117 [] c = "x" -> 120

\* a < b for Python strings: first differing code point, a proper prefix first
RECURSIVE StrLess(_, _)
StrLess(a, b) ==
    IF b = <<>> THEN FALSE
    ELSE IF a = <<>> THEN TRUE
    ELSE IF Head(a) = Head(b) THEN StrLess(Tail(a), Tail(b))
    ELSE Ord(Head(a)) < Ord(Head(b))

\* sorted(names)
RECURSIVE sorted(_)
sorted(S) ==
    IF S = {} THEN <<>>
    ELSE LET m == CHOOSE x \in S : \A y \in S \ {x} : StrLess(x, y)
         IN  <<m>> \o sorted(S \ {m})

DigitChar == <<"0", "1", "2", "3", "4", "5", "6", "7", "8", "9">>

\* str(n) for n >= 0, as the f-string formats it
RECURSIVE Digits(_)
Digits(n) ==
    IF n < 10 THEN <<DigitChar[n + 1]>>
    ELSE Digits(n \div 10) \o <<DigitChar[(n % 10) + 1]>>

IsSpace(c) == c \in {" ", "\n"}

RECURSIVE LStrip(_)
LStrip(s) == IF s # <<>> /\ IsSpace(Head(s)) THEN LStrip(Tail(s)) ELSE s

RECURSIVE RStrip(_)
RStrip(s) ==
    IF s # <<>> /\ IsSpace(s[Len(s)]) THEN RStrip(SubSeq(s, 1, Len(s) - 1))
    ELSE s

\* str.strip()
Strip(s) == RStrip(LStrip(s))

Sep == <<"\n", "\n">>

\* str.split('\n\n'): left-to-right, non-overlapping occurrences of Sep
RECURSIVE SplitFrom(_, _)
SplitFrom(s, cur) ==
    IF s = <<>> THEN <<cur>>
    ELSE IF IsPrefix(Sep, s)
         THEN <<cur>> \o SplitFrom(SubSeq(s, Len(Sep) + 1, Len(s)), <<>>)
         ELSE SplitFrom(Tail(s), Append(cur, Head(s)))

Split(s) == SplitFrom(s, <<>>)

EndsWithTxt(name) ==
    Len(name) >= 4 /\ SubSeq(name, Len(name) - 3, Len(name)) = <<".", "t", "x", "t">>

\* the index normalisation of seq[a:b] on a sequence of length n:
\* <<lo, hi>> with the slice being positions lo .. hi-1 (0-based)
PySliceBounds(n, a, b) ==
    LET lo == IF a < 0 THEN Max(0, a + n) ELSE Min(a, n)
        hi == IF b < 0 THEN Max(0, b + n) ELSE Min(b, n)
    IN  <<lo, Max(lo, hi)>>

\* variant: a last, partial stride is not started
RECURSIVE PyRange_fullStridesOnly(_, _, _)
PyRange_fullStridesOnly(start, stop, step) ==
    IF (step > 0 /\ start + step <= stop) \/ (step < 0 /\ start + step >= stop)
    THEN <<start>> \o PyRange_fullStridesOnly(start + step, stop, step)
    ELSE <<>>

\* list(range(start, stop, step)) for step # 0
RECURSIVE PyRange(_, _, _)
PyRange(start, stop, step) ==
    IF (step > 0 /\ start < stop) \/ (step < 0 /\ start > stop)
    THEN <<start>> \o PyRange(start + step, stop, step)
    ELSE <<>>

\* ------------------------------------------------------------------- codec
\* A byte-pair style vocabulary: token id -> text piece ("\n\n" is one token)
Vocab == << <<"a">>, <<"\n">>, <<"\n", "\n">> >>

\* tokenizer.encode: greedy longest piece first
RECURSIVE Encode(_)
Encode(t) ==
    IF t = <<>> THEN <<>>
    ELSE LET fits == {v \in 1..Len(Vocab) : IsPrefix(Vocab[v], t)}
             best == CHOOSE v \in fits :
                        \A w \in fits : Len(Vocab[w]) <= Len(Vocab[v])
         IN  <<best>> \o Encode(SubSeq(t, Len(Vocab[best]) + 1, Len(t)))

\* tokenizer.decode: concatenation of the pieces
RECURSIVE Decode(_)
Decode(toks) ==
    IF toks = <<>> THEN <<>> ELSE Vocab[Head(toks)] \o Decode(Tail(toks))

\* ------------------------------------------------------------- file names
\* f'chunk_{i+1}.txt'
ChunkName(i) ==
    <<"c", "h", "u", "n", "k", "_">> \o Digits(i + 1) \o <<".", "t", "x", "t">>

CombinedName ==
    <<"c", "o", "m", "b", "i", "n", "e", "d", "_",
      "c", "o", "n", "t", "e", "n", "t", ".", "t", "x", "t">>

\* input(...) + ".epub"
EpubName(base) == base \o <<".", "e", "p", "u", "b">>

EpubBases == { <<"b", "o", "o", "k">> }

\* --------------------------------------------------------------- the state
VARIABLES
    text,          \* content of input_file
    chunk_size,    \* args.chunk_size
    overlap,       \* args.overlap
    dir,           \* output directory: file name -> content
    pc,            \* position of main()
    tokens,        \* split_text: tokens
    chunks,        \* split_text: chunks (token windows)
    created,       \* file names split_text wrote, in order
    todo,          \* update_chunk_files: sorted(os.listdir(chunks_dir))
    idx,           \* update_chunk_files: position in todo
    visited,       \* file names passed to process_chunk, in order
    writes,        \* file names written after split_text returned, in order
    lastCall,      \* the latest service exchange
    combineOrder,  \* file names combine_chunks appended, in order
    full_content,  \* main: full_content
    html           \* create_epub: the <p> elements of html_content

vars == <<text, chunk_size, overlap, dir, pc, tokens, chunks, created, todo,
          idx, visited, writes, lastCall, combineOrder, full_content, html>>

NoCall == [file |-> <<>>, sent |-> <<>>, kind |-> "none", reply |-> <<>>]

\* ------------------------------------------------------------ input spaces
Texts == SeqsUpTo({"a", "\n"}, MaxLen)

LongText == Repeat("a", LongLen)

Params == (0 - MaxNeg)..MaxParam

LongConfigs == { <<2, 1>>, <<3, 1>> }

OldText == <<"o", "l", "d">>

\* what an earlier run may have left in output_dir
EmptyDir == [f \in {} |-> <<>>]

InitialDirs ==
    { EmptyDir,
      (ChunkName(3) :> OldText) @@ (CombinedName :> OldText)
         @@ (EpubName(<<"b", "o", "o", "k">>) :> OldText) }

Init ==
    /\ \/ /\ text \in Texts
          /\ chunk_size \in Params
          /\ overlap \in Params
          /\ dir \in InitialDirs
       \/ /\ text = LongText
          /\ \E cfg \in LongConfigs : chunk_size = cfg[1] /\ overlap = cfg[2]
          /\ dir = EmptyDir
    /\ pc = "split"
    /\ tokens = <<>>
    /\ chunks = <<>>
    /\ created = <<>>
    /\ todo = <<>>
    /\ idx = 0
    /\ visited = <<>>
    /\ writes = <<>>
    /\ lastCall = NoCall
    /\ combineOrder = <<>>
    /\ full_content = <<>>
    /\ html = <<>>

\* ---------------------------------------------------------------- Chunker
\* the token positions <<lo, hi>> of the window that starts the stride at i
WindowBounds(n, i, cs, ov) == PySliceBounds(n, Max(0, i - ov), i + cs)

\* variant: tokens[i - overlap:i + chunk_size], the start not clamped at 0
Window_unclamped(toks, i, cs, ov) ==
    LET bd == PySliceBounds(Len(toks), i - ov, i + cs)
    IN  SubSeq(toks, bd[1] + 1, bd[2])

\* tokens[max(0, i - overlap):i + chunk_size]
Window(toks, i, cs, ov) ==
    LET bd == WindowBounds(Len(toks), i, cs, ov)
    IN  SubSeq(toks, bd[1] + 1, bd[2])

\* the loop of lines 29-32
MakeChunks(toks, cs, ov) ==
    LET starts == PyRange(0, Len(toks), cs - ov)
    IN  [j \in 1..Len(starts) |-> Window(toks, starts[j], cs, ov)]

\* the loop of lines 38-42 applied to directory d
WriteChunks(d, chs) ==
    LET names == {ChunkName(j - 1) : j \in 1..Len(chs)}
    IN  [f \in (DOMAIN d) \cup names |->
            IF f \in names
            THEN Decode(chs[CHOOSE j \in 1..Len(chs) : ChunkName(j - 1) = f])
            ELSE d[f]]

split_text ==
    /\ pc = "split"
    /\ tokens' = Encode(text)
    /\ IF chunk_size - overlap = 0
       THEN \* range() arg 3 must not be zero: ValueError, re-raised by main
            /\ pc' = "failed"
            /\ UNCHANGED <<chunks, dir, created>>
       ELSE /\ chunks' = MakeChunks(tokens', chunk_size, overlap)
            /\ dir' = WriteChunks(dir, chunks')
            /\ created' = [j \in 1..Len(chunks') |-> ChunkName(j - 1)]
            /\ pc' = "list"
    /\ UNCHANGED <<text, chunk_size, overlap, todo, idx, visited, writes,
                   lastCall, combineOrder, full_content, html>>

\* -------------------------------------------------------- Chunk Processor
\* what the remote service may do with one request
Outcomes ==
    { [kind |-> "exception", reply |-> <<>>],
      [kind |-> "invalid", reply |-> <<>>] }
    \cup { [kind |-> "text", reply |-> r] :
             r \in { <<" ">>,
                     <<" ", "b", "\n", "\n", "b", "\n">> } }

\* variant: the reply is returned as received
process_chunk_unstripped(outcome) ==
    IF outcome.kind = "text" THEN outcome.reply ELSE <<>>

\* the value process_chunk returns for a given service outcome
process_chunk(outcome) ==
    IF outcome.kind = "text" THEN Strip(outcome.reply) ELSE <<>>

\* update_chunk_files, line 74: the listing is taken once, sorted
list_chunks ==
    /\ pc = "list"
    /\ todo' = sorted(DOMAIN dir)
    /\ idx' = 1
    /\ pc' = "process"
    /\ UNCHANGED <<text, chunk_size, overlap, dir, tokens, chunks, created,
                   visited, writes, lastCall, combineOrder, full_content, html>>

\* variant: an entry whose call yielded nothing is tried again
process_file_retry ==
    /\ pc = "process"
    /\ idx <= Len(todo)
    /\ EndsWithTxt(todo[idx])
    /\ LET filename == todo[idx]
           chunk == dir[filename]
       IN  \E outcome \in Outcomes :
             LET processed_chunk == process_chunk(outcome)
             IN  /\ visited' = Append(visited, filename)
                 /\ lastCall' = [file |-> filename, sent |-> chunk,
                                 kind |-> outcome.kind, reply |-> outcome.reply]
                 /\ IF processed_chunk # <<>>
                    THEN /\ dir' = [dir EXCEPT ![filename] = processed_chunk]
                         /\ writes' = Append(writes, filename)
                         /\ idx' = idx + 1
                    ELSE /\ idx' = idx
                         /\ UNCHANGED <<dir, writes>>
    /\ UNCHANGED <<text, chunk_size, overlap, pc, tokens, chunks, created,
                   todo, combineOrder, full_content, html>>

\* one iteration of the loop of update_chunk_files on a .txt entry
process_file ==
    /\ pc = "process"
    /\ idx <= Len(todo)
    /\ EndsWithTxt(todo[idx])
    /\ LET filename == todo[idx]
           chunk == dir[filename]
       IN  \E outcome \in Outcomes :
             LET processed_chunk == process_chunk(outcome)
             IN  /\ visited' = Append(visited, filename)
                 /\ lastCall' = [file |-> filename, sent |-> chunk,
                                 kind |-> outcome.kind, reply |-> outcome.reply]
                 /\ IF processed_chunk # <<>>
                    THEN /\ dir' = [dir EXCEPT ![filename] = processed_chunk]
                         /\ writes' = Append(writes, filename)
                    ELSE UNCHANGED <<dir, writes>>
    /\ idx' = idx + 1
    /\ UNCHANGED <<text, chunk_size, overlap, pc, tokens, chunks, created,
                   todo, combineOrder, full_content, html>>

\* one iteration on an entry that does not end with '.txt'
skip_file ==
    /\ pc = "process"
    /\ idx <= Len(todo)
    /\ ~EndsWithTxt(todo[idx])
    /\ idx' = idx + 1
    /\ UNCHANGED <<text, chunk_size, overlap, dir, pc, tokens, chunks, created,
                   todo, visited, writes, lastCall, combineOrder,
                   full_content, html>>

\* the loop is exhausted: update_chunk_files returns
update_return ==
    /\ pc = "process"
    /\ idx > Len(todo)
    /\ pc' = "combine"
    /\ UNCHANGED <<text, chunk_size, overlap, dir, tokens, chunks, created,
                   todo, idx, visited, writes, lastCall, combineOrder,
                   full_content, html>>

\* ----------------------------------------------------------------- Combiner
TxtNames(d) == SelectSeq(sorted(DOMAIN d), EndsWithTxt)

\* combined += chunk + "\n\n", over the given names
RECURSIVE Accumulate(_, _)
Accumulate(names, d) ==
    IF names = <<>> THEN <<>>
    ELSE d[Head(names)] \o Sep \o Accumulate(Tail(names), d)

\* variant: the accumulated text is returned without the final strip()
combine_chunks_untrimmed(d) == Accumulate(TxtNames(d), d)

\* the value combine_chunks returns for directory d
combine_chunks(d) == Strip(Accumulate(TxtNames(d), d))

combine ==
    /\ pc = "combine"
    /\ full_content' = combine_chunks(dir)
    /\ combineOrder' = TxtNames(dir)
    /\ pc' = "save"
    /\ UNCHANGED <<text, chunk_size, overlap, dir, tokens, chunks, created,
                   todo, idx, visited, writes, lastCall, html>>

\* main, lines 149-151: combined_content.txt
save_combined ==
    /\ pc = "save"
    /\ dir' = [f \in (DOMAIN dir) \cup {CombinedName} |->
                 IF f = CombinedName THEN full_content ELSE dir[f]]
    /\ writes' = Append(writes, CombinedName)
    /\ pc' = "package"
    /\ UNCHANGED <<text, chunk_size, overlap, tokens, chunks, created, todo,
                   idx, visited, lastCall, combineOrder, full_content, html>>

\* ----------------------------------------------------------------- Packager
NonBlank(p) == Strip(p) # <<>>

\* variant: every piece of the split becomes a <p> element
Paragraphs_unfiltered(content) == Split(content)

\* the <p> elements of html_content, line 112
Paragraphs(content) == SelectSeq(Split(content), NonBlank)

\* chapter.content, line 116
Chapter(paras) ==
    <<"<html><body>">>
    \o Flatten([j \in 1..Len(paras) |-> <<"<p>">> \o paras[j] \o <<"</p>">>])
    \o <<"</body></html>">>

create_epub ==
    /\ pc = "package"
    /\ \E base \in EpubBases :
         /\ html' = Paragraphs(full_content)
         /\ dir' = [f \in (DOMAIN dir) \cup {EpubName(base)} |->
                      IF f = EpubName(base) THEN Chapter(html') ELSE dir[f]]
         /\ writes' = Append(writes, EpubName(base))
    /\ pc' = "done"
    /\ UNCHANGED <<text, chunk_size, overlap, tokens, chunks, created, todo,
                   idx, visited, lastCall, combineOrder, full_content>>

\* --------------------------------------------------------------------- main
Next ==
    \/ split_text
    \/ list_chunks
    \/ process_file
    \/ skip_file
    \/ update_return
    \/ combine
    \/ save_combined
    \/ create_epub

Spec == Init /\ [][Next]_vars

\* =================================================================== claims
Range(q) == {q[j] : j \in 1..Len(q)}

Count(q, x) == Cardinality({j \in 1..Len(q) : q[j] = x})

AfterProcessing == pc \in {"combine", "save", "package", "done"}

Stride == chunk_size - overlap

\* the service call recorded in c did not yield text to write
CallFailed(c) ==
    \/ c.kind \in {"exception", "invalid"}
    \/ \A k \in 1..Len(c.reply) : IsSpace(c.reply[k])

\* ---- C1
\* C1: a service call that fails (exception, invalid response, output that is
\* blank after trimming) leaves every file as it was and the loop moves on to
\* the next entry; every step of the processing stage advances the loop or
\* hands over to the Combiner, which hands over to the save and the Packager,
\* so no step aborts the run once the Chunker has returned; every .txt entry
\* of the listing has been visited when processing is over, whichever calls
\* failed.
C1_ServiceFailureIsLocal ==
    /\ [][ (Len(visited') = Len(visited) + 1 /\ CallFailed(lastCall'))
             => (dir' = dir /\ idx' = idx + 1 /\ pc' = "process") ]_vars
    /\ [][ pc = "process" =>
             \/ pc' = "process" /\ idx' = idx + 1 /\ idx <= Len(todo)
             \/ pc' = "combine" /\ idx = Len(todo) + 1 ]_vars
    /\ [][ pc = "combine" => pc' = "save" ]_vars
    /\ [][ pc = "save" => pc' = "package" ]_vars
    /\ [](AfterProcessing => visited = SelectSeq(todo, EndsWithTxt))
    /\ [](pc = "failed" => visited = <<>>)

\* every chunk of a run with at least two chunks failed, and the run is at
\* the Packager with the chunk files as the Chunker wrote them
C1_Witness ==
    /\ pc = "package"
    /\ chunk_size > overlap
    /\ overlap >= 0
    /\ Len(created) >= 2
    /\ Range(created) \subseteq Range(visited)
    /\ Range(created) \cap Range(writes) = {}
    /\ \A j \in 1..Len(created) : dir[created[j]] = Decode(chunks[j])

\* ---- C2
\* C2: the Chunk Processor visits, and the Combiner concatenates, the chunk
\* files of the run in chunk numbering order chunk_1, chunk_2, ..., chunk_k.
C2_OrderIsNumberingOrder ==
    LET IsCreated(f) == f \in Range(created)
    IN  pc = "done" =>
          /\ SelectSeq(visited, IsCreated) = created
          /\ SelectSeq(combineOrder, IsCreated) = created

\* ---- C3
\* C3: for chunk_size > overlap >= 1, two consecutive windows that are not
\* cut short by the end of the token sequence have exactly `overlap` token
\* positions in common, and the first window starts at position 0.
C3_NeighboursShareOverlap ==
    (pc \notin {"split", "failed"} /\ chunk_size > overlap /\ overlap >= 1) =>
      LET n == Len(tokens)
          Start(j) == (j - 1) * Stride
          Bd(j) == WindowBounds(n, Start(j), chunk_size, overlap)
          Pos(j) == {q \in 0..(n - 1) : Bd(j)[1] <= q /\ q < Bd(j)[2]}
      IN  /\ Len(chunks) >= 1 => Bd(1)[1] = 0
          /\ \A j \in 1..(Len(chunks) - 1) :
                (Start(j) + chunk_size <= n /\ Start(j + 1) + chunk_size <= n)
                   => Cardinality(Pos(j) \cap Pos(j + 1)) = overlap

\* ---- C4
\* C4: a configuration that violates chunk_size > overlap >= 0 is rejected:
\* the run fails, no chunk file is written and nothing is sent to the service.
C4_InvalidConfigRejected ==
    (pc # "split" /\ ~(chunk_size > overlap /\ overlap >= 0)) =>
        /\ pc = "failed"
        /\ created = <<>>
        /\ visited = <<>>

\* ---- C5
Ceil(n, d) == (n + d - 1) \div d

\* C5: for chunk_size > overlap >= 1 the Chunker does not fail and writes
\* exactly ceil(n / stride) files, chunk_1.txt .. chunk_k.txt without a gap
\* (none for n = 0); 10000 tokens with chunk_size 3000, overlap 100 give 4.
C5_ChunkCount ==
    /\ (pc # "split" /\ chunk_size > overlap /\ overlap >= 1) =>
         LET k == Ceil(Len(tokens), Stride)
         IN  /\ pc # "failed"
             /\ Len(chunks) = k
             /\ created = [j \in 1..k |->
                   <<"c", "h", "u", "n", "k", "_">> \o Digits(j)
                      \o <<".", "t", "x", "t">>]
             /\ Range(created) \subseteq DOMAIN dir
    /\ Len(PyRange(0, 10000, 3000 - 100)) = 4

\* a run whose last chunk is a partial stride, so that rounding up matters
C5_Witness ==
    /\ pc = "done"
    /\ overlap >= 1
    /\ chunk_size > overlap
    /\ Len(tokens) % Stride # 0
    /\ Len(created) >= 2

\* ---- C6
\* C6: for chunk_size > overlap >= 0, window i holds its core range
\* [i*stride, min(n, (i+1)*stride)) right after its left overlap, and the
\* cores of all windows, concatenated in chunk order, are the token sequence.
C6_CoresRebuildTokens ==
    (pc \notin {"split", "failed"} /\ chunk_size > overlap /\ overlap >= 0) =>
      LET n == Len(tokens)
          CoreLo(j) == (j - 1) * Stride
          CoreHi(j) == Min(n, j * Stride)
          Left(j) == CoreLo(j) - Max(0, CoreLo(j) - overlap)
          Core(j) == SubSeq(chunks[j], Left(j) + 1,
                            Left(j) + CoreHi(j) - CoreLo(j))
      IN  /\ \A j \in 1..Len(chunks) :
                /\ CoreLo(j) < CoreHi(j)
                /\ Len(chunks[j]) >= Left(j) + CoreHi(j) - CoreLo(j)
                /\ Core(j) = SubSeq(tokens, CoreLo(j) + 1, CoreHi(j))
          /\ Flatten([j \in 1..Len(chunks) |-> Core(j)]) = tokens

\* several overlapping windows over tokens that are not all alike
C6_Witness ==
    /\ pc = "done"
    /\ overlap >= 1
    /\ chunk_size > overlap
    /\ Len(chunks) >= 3
    /\ Cardinality(Range(tokens)) >= 2

\* ---- C7
RECURSIVE JoinBlankLine(_)
JoinBlankLine(ss) ==
    IF ss = <<>> THEN <<>>
    ELSE IF Len(ss) = 1 THEN ss[1]
    ELSE Head(ss) \o <<"\n", "\n">> \o JoinBlankLine(Tail(ss))

\* s without its leading and trailing white space, by position
Trimmed(s) ==
    LET ink == {k \in 1..Len(s) : ~IsSpace(s[k])}
    IN  IF ink = {} THEN <<>>
        ELSE SubSeq(s, CHOOSE k \in ink : \A m \in ink : k <= m,
                       CHOOSE k \in ink : \A m \in ink : m <= k)

C8_OneCallOneWrite ==
    /\ [](\A f \in Range(created) :
            /\ Count(visited, f) <= 1
            /\ Count(writes, f) <= 1
            /\ AfterProcessing => Count(visited, f) = 1)
    /\ [][ pc # "split" =>
            /\ Len(visited') <= Len(visited) + 1
            /\ \A f \in Range(created) :
                 (dir'[f] # dir[f] \/ Count(writes', f) # Count(writes, f)) =>
                    /\ pc = "process"
                    /\ visited' = Append(visited, f)
                    /\ lastCall'.file = f
                    /\ lastCall'.sent = dir[f]
                    /\ lastCall'.kind = "text"
                    /\ dir'[f] = Trimmed(lastCall'.reply) ]_vars

\* a finished run in which one chunk was rewritten and another one failed
C8_Witness ==
    /\ pc = "done"
    /\ chunk_size > overlap
    /\ overlap >= 0
    /\ \E f, g \in Range(created) :
          f \in Range(writes) /\ g \notin Range(writes)

\* ---- C9
\* the number of newlines that end right before position i of s
RECURSIVE NewlinesBefore(_, _)
NewlinesBefore(s, i) ==
    IF i > 1 /\ s[i - 1] = "\n" THEN 1 + NewlinesBefore(s, i - 1) ELSE 0

\* where the blank-line delimiters of s start: pairs of newlines, counted
\* from the start of each run of newlines
DelimiterStarts(s) ==
    {i \in 1..(Len(s) - 1) :
        s[i] = "\n" /\ s[i + 1] = "\n" /\ NewlinesBefore(s, i) % 2 = 0}

\* the segments of s between its blank-line delimiters
Segments(s) ==
    LET D == DelimiterStarts(s)
        Nth(m) == CHOOSE i \in D : Cardinality({q \in D : q < i}) = m - 1
        From(m) == IF m = 1 THEN 1 ELSE Nth(m - 1) + 2
        To(m) == IF m = Cardinality(D) + 1 THEN Len(s) ELSE Nth(m) - 1
    IN  [m \in 1..(Cardinality(D) + 1) |-> SubSeq(s, From(m), To(m))]

HasInk(p) == \E k \in 1..Len(p) : ~IsSpace(p[k])

\* C9: the Packager emits one paragraph element per blank-line-delimited
\* segment of the combined text that is not blank, in the order of the
\* segments, none for a blank segment, none at all for the empty text, and
\* the document is written.
C9_ParagraphPerSegment ==
    pc = "done" =>
        /\ html = SelectSeq(Segments(full_content), HasInk)
        /\ (full_content = <<>> => html = <<>>)
        /\ \E base \in EpubBases :
              /\ EpubName(base) \in DOMAIN dir
              /\ dir[EpubName(base)] = Chapter(html)

\* a packaged text with several paragraphs and a blank segment between them
C9_Witness ==
    /\ pc = "done"
    /\ Len(html) >= 2
    /\ \E m \in 1..Len(Segments(full_content)) :
          ~HasInk(Segments(full_content)[m])

\* ---- C10
\* C10: whatever the output directory held before the run, the files sent to
\* the service and the files the Combiner concatenates are exactly the chunk
\* files the Chunker wrote in this run.
C10_OnlyThisRunsChunks ==
    pc = "done" =>
        /\ Range(visited) = Range(created)
        /\ Range(combineOrder) = Range(created)

====
